---- MODULE Spec2Model ----
(***************************************************************************)
(* ScaLaMa: provisioning of lab environments in a shared cluster.          *)
(* The model covers createLabEnvironment, deleteLab, handleManifest and    *)
(* the helpers they call.  Every remote call to the cluster control plane  *)
(* is one atomic step of the request that issues it.                       *)
(*                                                                         *)
(* Strings are sequences of one-character strings, so that prefix tests,   *)
(* replacement, splitting and lower-casing are computed as the code        *)
(* computes them.                                                          *)
(***************************************************************************)
EXTENDS Integers, Sequences, FiniteSets, TLC

(***************************************************************************)
(* Bounds of the model.                                                    *)
(***************************************************************************)
\* longest roster drawn for the pure check of getNamespaceNames
MaxRoster == 4
\* largest group number drawn for the pure check of getNamespaceNames
MaxGroup == 2
\* requests handled in one behaviour
MaxRequests == 2
\* requests handled in one behaviour of the specification that interleaves
\* create-lab and delete-lab requests
MaxInterleaved == 3

(***************************************************************************)
(* String helpers (package strings, fmt).                                  *)
(***************************************************************************)
HasPrefix(s, prefix) ==
    /\ Len(prefix) <= Len(s)
    /\ SubSeq(s, 1, Len(prefix)) = prefix

RECURSIVE ReplaceAll(_, _, _)
\* strings.ReplaceAll / strings.Replace(s, old, new, -1) for a non-empty old:
\* non-overlapping occurrences, left to right.
ReplaceAll(s, old, new) ==
    IF s = <<>> THEN <<>>
    ELSE IF HasPrefix(s, old)
         THEN new \o ReplaceAll(SubSeq(s, Len(old) + 1, Len(s)), old, new)
         ELSE <<Head(s)>> \o ReplaceAll(Tail(s), old, new)

RECURSIVE SplitAcc(_, _, _)
SplitAcc(s, sep, cur) ==
    IF s = <<>> THEN <<cur>>
    ELSE IF Head(s) = sep THEN <<cur>> \o SplitAcc(Tail(s), sep, <<>>)
    ELSE SplitAcc(Tail(s), sep, Append(cur, Head(s)))

\* strings.Split(s, sep) for a one-character separator
Split(s, sep) == SplitAcc(s, sep, <<>>)

RECURSIVE Join(_, _)
\* strings.Join(parts, sep)
Join(parts, sep) ==
    IF parts = <<>> THEN <<>>
    ELSE IF Len(parts) = 1 THEN parts[1]
    ELSE parts[1] \o sep \o Join(Tail(parts), sep)

LowerChar(c) ==
    CASE c = "A" -> "a"
      [] c = "B" -> "b"
      [] c = "N" -> "n"
      [] c = "S" -> "s"
      [] c = "D" -> "d"
      [] OTHER -> c

\* strings.ToLower
ToLower(s) == [i \in 1..Len(s) |-> LowerChar(s[i])]

Digit == <<"0", "1", "2", "3", "4", "5", "6", "7", "8", "9">>

RECURSIVE Itoa(_)
\* the %d verb of fmt.Sprintf
Itoa(n) ==
    IF n < 0 THEN <<"-">> \o Itoa(0 - n)
    ELSE IF n < 10 THEN <<Digit[n + 1]>>
    ELSE Itoa(n \div 10) \o <<Digit[(n % 10) + 1]>>

NsPrefix == <<"n", "s", "-">>
HYPHEN == <<"-">>
SPACE == " "
GroupWord == <<"g", "r", "o", "u", "p", "-">>
CrbPrefix ==
    <<"r", "e", "a", "d", "-", "n", "a", "m", "e", "s", "p", "a", "c", "e", "s",
      "-", "c", "r", "b", "-">>
StudentBinding ==
    <<"s", "t", "u", "d", "e", "n", "t", "-", "b", "i", "n", "d", "i", "n", "g">>
StudentRole == <<"s", "t", "u", "d", "e", "n", "t">>

\* "ns-" + labName
LabNamespace(labName) == NsPrefix \o labName

\* the sentinel NewStudent stores when the group label holds no number
NoGroup == -1

(***************************************************************************)
(* getNamespaceNames                                                       *)
(***************************************************************************)
\* strings.ToLower(strings.Join(strings.Split(student.name, " "), "-"))
Slug(name) == ToLower(Join(Split(name, SPACE), HYPHEN))

IndividualNamespace(labName, student) ==
    NsPrefix \o labName \o HYPHEN \o Slug(student.name)

GroupNamespace(labName, group) ==
    NsPrefix \o labName \o HYPHEN \o GroupWord \o Itoa(group)

RECURSIVE GroupLoop(_, _, _, _)
\* the loop over students with the visited map
GroupLoop(students, labName, visited, namespaces) ==
    IF students = <<>> THEN namespaces
    ELSE LET student == Head(students)
         IN IF student.group # NoGroup /\ student.group \notin visited
            THEN GroupLoop(Tail(students), labName,
                           visited \cup {student.group},
                           Append(namespaces, GroupNamespace(labName, student.group)))
            ELSE GroupLoop(Tail(students), labName, visited, namespaces)

\* a variant that forgets the visited map
getNamespaceNamesNoVisited(students, labName, isIndividual) ==
    IF isIndividual
    THEN [i \in 1..Len(students) |-> IndividualNamespace(labName, students[i])]
    ELSE LET kept == SelectSeq(students, LAMBDA st : st.group # NoGroup)
         IN [i \in 1..Len(kept) |-> GroupNamespace(labName, kept[i].group)]

getNamespaceNames(students, labName, isIndividual) ==
    IF isIndividual
    THEN [i \in 1..Len(students) |-> IndividualNamespace(labName, students[i])]
    ELSE GroupLoop(students, labName, {}, <<>>)

(***************************************************************************)
(* State.                                                                  *)
(*                                                                         *)
(* The cluster control plane is the only durable store: namespaces,        *)
(* service accounts (with the token of the secret the token controller     *)
(* attaches, 0 while none is attached), roles, role bindings, cluster role *)
(* bindings and the objects created from manifests (by: the slot whose     *)
(* request created the object, a history field); crs holds the names of    *)
(* the cluster roles.  boot holds the local variables of main.             *)
(* rq[s] holds the local variables of the request handled in slot s.       *)
(***************************************************************************)
VARIABLES nss, sas, roles, rbs, crbs, objs, tokSeq, rq, nreq, pf, crs, boot

cluster == <<nss, sas, roles, rbs, crbs, objs, tokSeq>>
vars == <<nss, sas, roles, rbs, crbs, objs, tokSeq, rq, nreq, pf, crs, boot>>

\* the cluster roles and the position of main
startup == <<crs, boot>>

Slots == {1, 2}

EmptyMap == [x \in {} |-> 0]

\* a variant that starts a new map at every assignment
MapPutFresh(m, key, value) == [x \in {key} |-> value]

\* map[key] = value of a Go map
MapPut(m, key, value) ==
    [x \in DOMAIN m \cup {key} |-> IF x = key THEN value ELSE m[x]]

(***************************************************************************)
(* Inputs of the requests.                                                 *)
(***************************************************************************)
Student(name, group) == [name |-> name, group |-> group]

\* labName form values of create requests, before the hyphens are removed
LabInputs == {<<"d">>, <<"-", "d">>}

\* labName parameters of delete requests, before the hyphens are removed
DeleteInputs == {<<"d">>, <<"d", "-", "e">>}

RosterInputs ==
    { <<Student(<<"a">>, 1), Student(<<"a">>, NoGroup)>>,
      <<Student(<<"A", " ", "b">>, 1), Student(<<"a">>, 2)>> }

\* A manifest document: the object's name, its metadata ("absent": no
\* metadata section; "noflag": metadata without single_instance; "true" and
\* "false": the flag; "nonbool": a flag that is no boolean) and whether it
\* decodes and resolves to a resource of the cluster.
Doc(name, meta, decodes) == [name |-> name, meta |-> meta, decodes |-> decodes]
NoDoc == Doc("", "noflag", FALSE)

ManifestInputs ==
    { <<Doc("shared", "noflag", TRUE), Doc("web", "false", TRUE)>>,
      <<Doc("web", "false", TRUE), Doc("db", "true", TRUE),
        Doc("broken", "noflag", FALSE), Doc("job", "false", TRUE)>>,
      <<Doc("cfg", "absent", TRUE), Doc("web", "false", TRUE)>>,
      <<Doc("shared", "noflag", TRUE), Doc("web", "false", TRUE),
        Doc("web", "false", TRUE), Doc("shared", "true", TRUE)>> }

\* What the uploaded form part is: present with a supported content type,
\* absent, or of another content type.
UploadInputs == {"ok", "missing", "badtype"}

\* How the manifest is obtained: the configuration upload is valid, missing
\* or of an unsupported type, the chart fails to render, or deploymentMode is
\* none of the three modes.
ConfigInputs == {"ok", "missing", "badtype", "renderfail", "nomode"}

Idle ==
    [kind |-> "none", pc |-> "idle", labName |-> <<>>, students |-> <<>>,
     isIndividual |-> TRUE, config |-> "ok", manifest |-> <<>>,
     namespaces |-> <<>>, labExists |-> FALSE, i |-> 1,
     newNamespaces |-> <<>>, k |-> 1, username |-> <<>>, token |-> 0,
     userConfigs |-> EmptyMap,
     file |-> <<>>, fileNil |-> FALSE, file1 |-> <<>>, err |-> "nil",
     obj |-> NoDoc, j |-> 1, seen1 |-> <<>>, seen2 |-> <<>>,
     todo |-> {}, status |-> 0, body |-> EmptyMap, log |-> <<>>,
     remoteFailed |-> FALSE, helperErr |-> "nil",
     pre |-> [nss |-> {}, crbs |-> {}]]

\* Objects that exist in the cluster before the process starts: the default
\* namespace and the administrators' binding, and the namespaces and the
\* cluster role binding of a lab "de" with one tenant "x".
ForeignNamespaces ==
    { <<"d", "e", "f", "a", "u", "l", "t">>,
      NsPrefix \o <<"d", "e">>,
      NsPrefix \o <<"d", "e">> \o HYPHEN \o <<"x">> }
ForeignCrbs ==
    { <<"a", "d", "m", "i", "n">>,
      CrbPrefix \o <<"d", "e">> \o HYPHEN \o <<"x">> }

\* the name of the cluster role that lets students read namespaces
ReadNamespacesCr == "read-namespaces-cr"

\* main before its first remote call; log records the creation calls it
\* issues and pre the cluster roles at the start (history variables)
Booting ==
    [pc |-> "check", exists |-> FALSE, err |-> <<>>, log |-> <<>>, pre |-> {}]

\* main after createNamespaceClusterRoleIfNotExists returned nil: the router
\* serves requests and the cluster role exists
Serving == [Booting EXCEPT !.pc = "serve", !.exists = TRUE,
                           !.pre = {ReadNamespacesCr}]

\* The state in which the process serves requests.
Init ==
    /\ nss = ForeignNamespaces
    /\ sas = {}
    /\ roles = {}
    /\ rbs = {}
    /\ crbs = {[name |-> n, subject |-> <<>>, subjectNs |-> <<>>] : n \in ForeignCrbs}
    /\ objs = {}
    /\ tokSeq = 0
    /\ rq = [s \in Slots |-> Idle]
    /\ nreq = 0
    /\ pf = [phase |-> "off"]
    /\ crs = {ReadNamespacesCr}
    /\ boot = Serving

(***************************************************************************)
(* Helpers of the actions.                                                 *)
(***************************************************************************)
\* http.Error(w, ..., status) followed by return
Respond(r, status) == [r EXCEPT !.pc = "done", !.status = status]

\* a remote call of the request has returned an error (history variable)
RemoteError(r) == [r EXCEPT !.remoteFailed = TRUE]

\* a panic unwinds the handler; net/http recovers it and sends no response
Panic(r) == [r EXCEPT !.pc = "panic"]

\* record of a mutating call issued to the control plane (history variable)
Logged(r, op, ns, name, ok) ==
    [r EXCEPT !.log = Append(@, [op |-> op, ns |-> ns, name |-> name, ok |-> ok])]

\* an object of that name exists in that namespace
Exists(set, ns, name) == \E o \in set : o.ns = ns /\ o.name = name

\* a variant whose scan never matches
namespaceExistsNever(name) == FALSE

\* namespaceExists: the scan of the listing for an exact match
namespaceExists(name) == \E namespace \in nss : namespace = name

\* the loop over namespaces is left when every name has been handled
AfterEnsure(r) ==
    IF r.i <= Len(r.namespaces) THEN [r EXCEPT !.pc = "namespaceExists"]
    ELSE IF r.newNamespaces # <<>> THEN [r EXCEPT !.pc = "createServiceAccount", !.k = 1]
    ELSE [r EXCEPT !.pc = "getManifest"]

\* strings.Replace(namespace, "ns-"+labName+"-", "", -1)
Username(namespace, labName) ==
    ReplaceAll(namespace, NsPrefix \o labName \o HYPHEN, <<>>)

\* "read-namespaces-crb-" + labName + "-" + username
CrbName(labName, username) == CrbPrefix \o labName \o HYPHEN \o username

(***************************************************************************)
(* POST /lab: studentsMiddleware, then createLabEnvironment up to the      *)
(* first remote call.                                                      *)
(***************************************************************************)
\* A POST /lab arrives while fewer than budget requests have arrived; its
\* form values are drawn from the given sets.
StartCreateFrom(s, budget, uploads, labs, rosters, modes) ==
    /\ boot.pc = "serve"
    /\ rq[s].pc \in {"idle", "done", "panic"}
    /\ nreq < budget
    /\ nreq' = nreq + 1
    /\ \E upload \in uploads :
          LET r0 == [Idle EXCEPT !.kind = "create",
                                 !.pre = [nss |-> nss, crbs |-> crbs]]
          IN IF upload = "missing" THEN rq' = [rq EXCEPT ![s] = Respond(r0, 400)]
             ELSE IF upload = "badtype" THEN rq' = [rq EXCEPT ![s] = Respond(r0, 415)]
             ELSE \E lab \in labs, students \in rosters, ind \in modes :
                    LET labName == ReplaceAll(lab, HYPHEN, <<>>)
                    IN rq' = [rq EXCEPT ![s] =
                                [r0 EXCEPT !.pc = "labExists",
                                           !.labName = labName,
                                           !.students = students,
                                           !.isIndividual = ind,
                                           !.namespaces =
                                               getNamespaceNames(students, labName, ind)]]
    /\ UNCHANGED <<cluster, pf, startup>>

StartCreate(s) ==
    StartCreateFrom(s, MaxRequests, UploadInputs, LabInputs, RosterInputs, BOOLEAN)

\* labExists, err := namespaceExists(clientset, "ns-"+labName)
CheckLab(s) ==
    LET r == rq[s]
    IN /\ r.pc = "labExists"
       /\ \E fail \in BOOLEAN :
             /\ rq' = [rq EXCEPT ![s] =
                         IF fail THEN Respond(RemoteError(r), 500)
                         ELSE IF namespaceExists(LabNamespace(r.labName))
                              THEN AfterEnsure([r EXCEPT !.labExists = TRUE])
                              ELSE [r EXCEPT !.labExists = FALSE,
                                             !.pc = "createLabNamespace"]]
       /\ UNCHANGED <<cluster, nreq, pf, startup>>

\* createNamespace(clientset, "ns-"+labName)
CreateLabNamespace(s) ==
    LET r == rq[s]
        name == LabNamespace(r.labName)
    IN /\ r.pc = "createLabNamespace"
       /\ \E fail \in BOOLEAN :
             /\ fail => name \notin nss
             /\ LET ok == ~fail /\ name \notin nss
                    r1 == Logged(r, "createNamespace", <<>>, name, ok)
                IN /\ nss' = IF ok THEN nss \cup {name} ELSE nss
                   /\ rq' = [rq EXCEPT ![s] =
                               IF ok THEN [r1 EXCEPT !.pc = "createLabRole"]
                               ELSE Respond(RemoteError(r1), 500)]
       /\ UNCHANGED <<sas, roles, rbs, crbs, objs, tokSeq, nreq, pf, startup>>

\* createRole(clientset, "student", "ns-"+labName, {"list", "get", "watch"})
CreateLabRole(s) ==
    LET r == rq[s]
        ns == LabNamespace(r.labName)
    IN /\ r.pc = "createLabRole"
       /\ \E fail \in BOOLEAN :
             /\ LET can == ns \in nss /\ ~Exists(roles, ns, StudentRole)
                    ok == ~fail /\ can
                    r1 == Logged(r, "createRole", ns, StudentRole, ok)
                IN /\ fail => can
                   /\ roles' = IF ok
                               THEN roles \cup {[ns |-> ns, name |-> StudentRole,
                                                 verbs |-> {"list", "get", "watch"}]}
                               ELSE roles
                   /\ rq' = [rq EXCEPT ![s] =
                               IF ok THEN AfterEnsure(r1) ELSE Respond(RemoteError(r1), 500)]
       /\ UNCHANGED <<nss, sas, rbs, crbs, objs, tokSeq, nreq, pf, startup>>

\* namespaceExists(clientset, namespace) in the loop over namespaces
CheckNamespace(s) ==
    LET r == rq[s]
    IN /\ r.pc = "namespaceExists"
       /\ \E fail \in BOOLEAN :
             /\ rq' = [rq EXCEPT ![s] =
                         IF fail THEN Respond(RemoteError(r), 500)
                         ELSE IF namespaceExists(r.namespaces[r.i])
                              THEN AfterEnsure([r EXCEPT !.i = @ + 1])
                              ELSE [r EXCEPT !.pc = "createNamespace"]]
       /\ UNCHANGED <<cluster, nreq, pf, startup>>

\* a variant that takes a namespace that exists for created
CreateNamespaceAdopt(s) ==
    LET r == rq[s]
        name == r.namespaces[r.i]
    IN /\ r.pc = "createNamespace"
       /\ \E fail \in BOOLEAN :
             /\ LET ok == ~fail
                    r1 == Logged(r, "createNamespace", <<>>, name, ok)
                IN /\ nss' = IF ok THEN nss \cup {name} ELSE nss
                   /\ rq' = [rq EXCEPT ![s] =
                               IF ok
                               THEN AfterEnsure([r1 EXCEPT
                                       !.newNamespaces = Append(@, name),
                                       !.i = @ + 1])
                               ELSE Respond(RemoteError(r1), 500)]
       /\ UNCHANGED <<sas, roles, rbs, crbs, objs, tokSeq, nreq, pf, startup>>

\* createNamespace(clientset, namespace); newNamespaces = append(...)
CreateNamespace(s) ==
    LET r == rq[s]
        name == r.namespaces[r.i]
    IN /\ r.pc = "createNamespace"
       /\ \E fail \in BOOLEAN :
             /\ fail => name \notin nss
             /\ LET ok == ~fail /\ name \notin nss
                    r1 == Logged(r, "createNamespace", <<>>, name, ok)
                IN /\ nss' = IF ok THEN nss \cup {name} ELSE nss
                   /\ rq' = [rq EXCEPT ![s] =
                               IF ok
                               THEN AfterEnsure([r1 EXCEPT
                                       !.newNamespaces = Append(@, name),
                                       !.i = @ + 1])
                               ELSE Respond(RemoteError(r1), 500)]
       /\ UNCHANGED <<sas, roles, rbs, crbs, objs, tokSeq, nreq, pf, startup>>

(***************************************************************************)
(* The loop over newNamespaces: identity, role and the three bindings.     *)
(***************************************************************************)
\* a variant that leaves the loop after the first new namespace
AfterTenantFirstOnly(r) == [r EXCEPT !.pc = "getManifest"]

\* the step after the cluster role binding of newNamespaces[k]
AfterTenant(r) ==
    IF r.k < Len(r.newNamespaces)
    THEN [r EXCEPT !.pc = "createServiceAccount", !.k = @ + 1]
    ELSE [r EXCEPT !.pc = "getManifest"]

\* createServiceAccount: ServiceAccounts(namespace).Create
CreateServiceAccount(s) ==
    LET r == rq[s]
        ns == r.newNamespaces[r.k]
        username == Username(ns, r.labName)
    IN /\ r.pc = "createServiceAccount"
       /\ \E fail \in BOOLEAN :
             /\ LET can == ns \in nss /\ ~Exists(sas, ns, username)
                    ok == ~fail /\ can
                    r1 == Logged([r EXCEPT !.username = username],
                                 "createServiceAccount", ns, username, ok)
                IN /\ fail => can
                   /\ sas' = IF ok
                             THEN sas \cup {[ns |-> ns, name |-> username, secret |-> 0]}
                             ELSE sas
                   /\ rq' = [rq EXCEPT ![s] =
                               IF ok THEN [r1 EXCEPT !.pc = "pollServiceAccount"]
                               ELSE Respond(RemoteError(r1), 500)]
       /\ UNCHANGED <<nss, roles, rbs, crbs, objs, tokSeq, nreq, pf, startup>>

\* The token controller of the control plane attaches a secret to a service
\* account some time after the account was created.
AttachSecret ==
    \E sa \in sas :
       /\ sa.secret = 0
       /\ tokSeq' = tokSeq + 1
       /\ sas' = (sas \ {sa}) \cup {[sa EXCEPT !.secret = tokSeq + 1]}
       /\ UNCHANGED <<nss, roles, rbs, crbs, objs, rq, nreq, pf, startup>>

\* a variant that leaves the loop after the first re-fetch
PollServiceAccountOnce(s) ==
    LET r == rq[s]
        ns == r.newNamespaces[r.k]
        found == {sa \in sas : sa.ns = ns /\ sa.name = r.username}
    IN /\ r.pc = "pollServiceAccount"
       /\ \E fail \in BOOLEAN :
             /\ fail => found # {}
             /\ IF fail \/ found = {}
                THEN rq' = [rq EXCEPT ![s] = Respond(RemoteError(r), 500)]
                ELSE rq' = [rq EXCEPT ![s] = [r EXCEPT !.pc = "getSecret"]]
       /\ UNCHANGED <<cluster, nreq, pf, startup>>

\* createServiceAccount: one iteration of the loop that re-fetches the
\* service account.  An iteration that finds no secret changes nothing and
\* is a stuttering step.
PollServiceAccount(s) ==
    LET r == rq[s]
        ns == r.newNamespaces[r.k]
        found == {sa \in sas : sa.ns = ns /\ sa.name = r.username}
    IN /\ r.pc = "pollServiceAccount"
       /\ \E fail \in BOOLEAN :
             /\ fail => found # {}
             /\ IF fail \/ found = {}
                THEN rq' = [rq EXCEPT ![s] = Respond(RemoteError(r), 500)]
                ELSE /\ \E sa \in found : sa.secret # 0
                     /\ rq' = [rq EXCEPT ![s] = [r EXCEPT !.pc = "getSecret"]]
       /\ UNCHANGED <<cluster, nreq, pf, startup>>

\* createServiceAccount: Secrets(namespace).Get(secretName); the token
GetSecret(s) ==
    LET r == rq[s]
        ns == r.newNamespaces[r.k]
        found == {sa \in sas : sa.ns = ns /\ sa.name = r.username /\ sa.secret # 0}
    IN /\ r.pc = "getSecret"
       /\ \E fail \in BOOLEAN :
             /\ fail => found # {}
             /\ IF fail \/ found = {}
                THEN rq' = [rq EXCEPT ![s] = Respond(RemoteError(r), 500)]
                ELSE \E sa \in found :
                        rq' = [rq EXCEPT ![s] =
                                 [r EXCEPT !.token = sa.secret, !.pc = "createRole"]]
       /\ UNCHANGED <<cluster, nreq, pf, startup>>

\* createRole(clientset, "student", namespace, {"*"})
CreateRole(s) ==
    LET r == rq[s]
        ns == r.newNamespaces[r.k]
    IN /\ r.pc = "createRole"
       /\ \E fail \in BOOLEAN :
             /\ LET can == ns \in nss /\ ~Exists(roles, ns, StudentRole)
                    ok == ~fail /\ can
                    r1 == Logged(r, "createRole", ns, StudentRole, ok)
                IN /\ fail => can
                   /\ roles' = IF ok
                               THEN roles \cup {[ns |-> ns, name |-> StudentRole,
                                                 verbs |-> {"*"}]}
                               ELSE roles
                   /\ rq' = [rq EXCEPT ![s] =
                               IF ok THEN [r1 EXCEPT !.pc = "createRoleBinding"]
                               ELSE Respond(RemoteError(r1), 500)]
       /\ UNCHANGED <<nss, sas, rbs, crbs, objs, tokSeq, nreq, pf, startup>>

\* createRoleBinding(clientset, "student-binding", namespace, username,
\*                   namespace, "student")
CreateRoleBinding(s) ==
    LET r == rq[s]
        ns == r.newNamespaces[r.k]
    IN /\ r.pc = "createRoleBinding"
       /\ \E fail \in BOOLEAN :
             /\ LET can == ns \in nss /\ ~Exists(rbs, ns, StudentBinding)
                    ok == ~fail /\ can
                    r1 == Logged(r, "createRoleBinding", ns, StudentBinding, ok)
                IN /\ fail => can
                   /\ rbs' = IF ok
                             THEN rbs \cup {[ns |-> ns, name |-> StudentBinding,
                                             subject |-> r.username, subjectNs |-> ns,
                                             role |-> StudentRole]}
                             ELSE rbs
                   /\ rq' = [rq EXCEPT ![s] =
                               IF ok THEN [r1 EXCEPT !.pc = "createLabRoleBinding"]
                               ELSE Respond(RemoteError(r1), 500)]
       /\ UNCHANGED <<nss, sas, roles, crbs, objs, tokSeq, nreq, pf, startup>>

\* createRoleBinding(clientset, "student-binding-"+username, "ns-"+labName,
\*                   username, namespace, "student")
CreateLabRoleBinding(s) ==
    LET r == rq[s]
        ns == r.newNamespaces[r.k]
        labNs == LabNamespace(r.labName)
        name == StudentBinding \o HYPHEN \o r.username
    IN /\ r.pc = "createLabRoleBinding"
       /\ \E fail \in BOOLEAN :
             /\ LET can == labNs \in nss /\ ~Exists(rbs, labNs, name)
                    ok == ~fail /\ can
                    r1 == Logged(r, "createRoleBinding", labNs, name, ok)
                IN /\ fail => can
                   /\ rbs' = IF ok
                             THEN rbs \cup {[ns |-> labNs, name |-> name,
                                             subject |-> r.username, subjectNs |-> ns,
                                             role |-> StudentRole]}
                             ELSE rbs
                   /\ rq' = [rq EXCEPT ![s] =
                               IF ok THEN [r1 EXCEPT !.pc = "createClusterRoleBinding"]
                               ELSE Respond(RemoteError(r1), 500)]
       /\ UNCHANGED <<nss, sas, roles, crbs, objs, tokSeq, nreq, pf, startup>>

\* createReadNamespacesClusterRoleBinding(clientset, labName, username,
\*                                        namespace); userConfigs[username] = token
CreateClusterRoleBinding(s) ==
    LET r == rq[s]
        ns == r.newNamespaces[r.k]
        name == CrbName(r.labName, r.username)
    IN /\ r.pc = "createClusterRoleBinding"
       /\ \E fail \in BOOLEAN :
             /\ LET can == \A b \in crbs : b.name # name
                    ok == ~fail /\ can
                    r1 == Logged(r, "createClusterRoleBinding", <<>>, name, ok)
                IN /\ fail => can
                   /\ crbs' = IF ok
                              THEN crbs \cup {[name |-> name, subject |-> r.username,
                                               subjectNs |-> ns]}
                              ELSE crbs
                   /\ rq' = [rq EXCEPT ![s] =
                               IF ok
                               THEN AfterTenant([r1 EXCEPT !.userConfigs =
                                                   MapPut(@, r.username, r.token)])
                               ELSE Respond(RemoteError(r1), 500)]
       /\ UNCHANGED <<nss, sas, roles, rbs, objs, tokSeq, nreq, pf, startup>>

(***************************************************************************)
(* The manifest: the switch on deploymentMode, then handleManifest.        *)
(***************************************************************************)
\* The switch on deploymentMode.  getFormFile may refuse the upload (400,
\* 415), the chart may fail to load or render (500); a deploymentMode that is
\* none of the three cases leaves manifestFile nil.
GetManifestFrom(s, configs, manifests) ==
    LET r == rq[s]
        enter(x) == [x EXCEPT !.pc = IF x.labExists THEN "secondPass" ELSE "firstPass"]
    IN /\ r.pc = "getManifest"
       /\ \E config \in configs :
             LET r1 == [r EXCEPT !.config = config]
             IN CASE config = "missing" -> rq' = [rq EXCEPT ![s] = Respond(r1, 400)]
                  [] config = "badtype" -> rq' = [rq EXCEPT ![s] = Respond(r1, 415)]
                  [] config = "renderfail" -> rq' = [rq EXCEPT ![s] = Respond(r1, 500)]
                  [] config = "nomode" ->
                        rq' = [rq EXCEPT ![s] = enter([r1 EXCEPT !.fileNil = TRUE])]
                  [] OTHER ->
                        \E manifest \in manifests :
                           rq' = [rq EXCEPT ![s] =
                                    enter([r1 EXCEPT !.manifest = manifest,
                                                     !.file = manifest])]
       /\ UNCHANGED <<cluster, nreq, pf, startup>>

GetManifest(s) == GetManifestFrom(s, ConfigInputs, ManifestInputs)

\* a variant whose default is false
singleInstanceDefaultFalse(doc) == doc.meta = "true"

\* singleInstance := true; if metadata != nil { singleInstance =
\*    metadata["single_instance"] == nil || metadata["single_instance"].(bool) }
singleInstance(doc) ==
    IF doc.meta = "absent" THEN TRUE
    ELSE doc.meta = "noflag" \/ doc.meta = "true"

\* The type assertions on the metadata and on the flag panic when the
\* document has no metadata map or the flag is no boolean.
AssertionPanics(doc) == doc.meta = "absent" \/ doc.meta = "nonbool"

\* First loop of handleManifest, run when the lab did not exist: one call of
\* handleManifestHelper on the decoder over the tee of the stream.  The tee
\* copies what the decoder reads into file1.  The helper decodes the next
\* document and asks the discovery endpoint for its resource mapping.
FirstPass(s) ==
    LET r == rq[s]
    IN /\ r.pc = "firstPass"
       /\ IF r.fileNil
          THEN /\ rq' = [rq EXCEPT ![s] = Panic(r)]
          ELSE IF r.file = <<>>
          THEN \* io.EOF ends the loop; err == io.EOF, the second loop follows
               /\ rq' = [rq EXCEPT ![s] = [r EXCEPT !.err = "EOF", !.pc = "secondPass"]]
          ELSE LET doc == Head(r.file)
                   r1 == [r EXCEPT !.file = Tail(@), !.file1 = Append(@, doc)]
               IN \E fail \in BOOLEAN :
                     /\ fail => doc.decodes
                     /\ rq' = [rq EXCEPT ![s] =
                                 IF ~doc.decodes
                                 THEN Respond([r1 EXCEPT !.err = "decode",
                                                         !.helperErr = "decode"], 500)
                                 ELSE IF fail
                                 THEN Respond(RemoteError([r1 EXCEPT !.err = "remote",
                                                                     !.helperErr = "remote"]),
                                              500)
                                 ELSE LET r2 == [r1 EXCEPT !.seen1 = Append(@, doc)]
                                      IN IF AssertionPanics(doc) THEN Panic(r2)
                                         ELSE IF singleInstance(doc)
                                         THEN [r2 EXCEPT !.obj = doc,
                                                         !.pc = "firstPassCreate"]
                                         ELSE r2]
       /\ UNCHANGED <<cluster, nreq, pf, startup>>

\* the namespace the first loop applies a singleton object into
SingletonNamespace(r) == LabNamespace(r.labName)

\* unstructuredObj.SetNamespace("ns-" + labName); dri.Create(...)
FirstPassCreate(s) ==
    LET r == rq[s]
        ns == SingletonNamespace(r)
    IN /\ r.pc = "firstPassCreate"
       /\ \E fail \in BOOLEAN :
             /\ LET can == ns \in nss /\ ~Exists(objs, ns, r.obj.name)
                    ok == ~fail /\ can
                    r1 == Logged(r, "createObject", ns, r.obj.name, ok)
                IN /\ fail => can
                   /\ objs' = IF ok THEN objs \cup {[ns |-> ns, name |-> r.obj.name, by |-> s]}
                              ELSE objs
                   /\ rq' = [rq EXCEPT ![s] =
                               IF ok THEN [r1 EXCEPT !.pc = "firstPass"]
                               ELSE Respond(RemoteError(r1), 500)]
       /\ UNCHANGED <<nss, sas, roles, rbs, crbs, tokSeq, nreq, pf, startup>>

\* What handleManifest returns after its second loop has ended on an error
\* of the helper.  The loop declares its own err (:=), so the test reads the
\* err of the function scope: io.EOF when the first loop ran, nil otherwise.
\* helperErr is the error that ended the loop.
SecondPassResult(outerErr, helperErr) ==
    IF outerErr # "EOF" THEN outerErr ELSE "nil"

\* the response of createLabEnvironment for handleManifest's result
ManifestResponse(r, result) ==
    IF result # "nil" THEN Respond(r, 500)
    ELSE [Respond(r, 200) EXCEPT !.body = r.userConfigs]

\* Second loop of handleManifest: one call of handleManifestHelper on the
\* decoder over file1 (the lab did not exist) or over the stream itself.
SecondPass(s) ==
    LET r == rq[s]
        source == IF r.labExists THEN r.file ELSE r.file1
        read(x) == IF x.labExists THEN [x EXCEPT !.file = Tail(@)]
                   ELSE [x EXCEPT !.file1 = Tail(@)]
    IN /\ r.pc = "secondPass"
       /\ IF r.fileNil
          THEN /\ rq' = [rq EXCEPT ![s] = Panic(r)]
          ELSE IF source = <<>>
          THEN /\ rq' = [rq EXCEPT ![s] =
                           ManifestResponse(r, SecondPassResult(r.err, "EOF"))]
          ELSE LET doc == Head(source)
                   r1 == read(r)
               IN \E fail \in BOOLEAN :
                     /\ fail => doc.decodes
                     /\ rq' = [rq EXCEPT ![s] =
                                 IF ~doc.decodes
                                 THEN ManifestResponse([r1 EXCEPT !.helperErr = "decode"],
                                                       SecondPassResult(r.err, "decode"))
                                 ELSE IF fail
                                 THEN ManifestResponse(
                                         RemoteError([r1 EXCEPT !.helperErr = "remote"]),
                                         SecondPassResult(r.err, "remote"))
                                 ELSE LET r2 == [r1 EXCEPT !.seen2 = Append(@, doc)]
                                      IN IF AssertionPanics(doc) THEN Panic(r2)
                                         ELSE IF singleInstance(doc) \/ r.newNamespaces = <<>>
                                         THEN r2
                                         ELSE [r2 EXCEPT !.obj = doc, !.j = 1,
                                                         !.pc = "secondPassCreate"]]
       /\ UNCHANGED <<cluster, nreq, pf, startup>>

\* a variant that goes on with the next namespace after a failed create
SecondPassCreateContinue(s) ==
    LET r == rq[s]
        ns == r.newNamespaces[r.j]
    IN /\ r.pc = "secondPassCreate"
       /\ \E fail \in BOOLEAN :
             /\ LET can == ns \in nss /\ ~Exists(objs, ns, r.obj.name)
                    ok == ~fail /\ can
                    r1 == Logged(r, "createObject", ns, r.obj.name, ok)
                IN /\ fail => can
                   /\ objs' = IF ok THEN objs \cup {[ns |-> ns, name |-> r.obj.name, by |-> s]}
                              ELSE objs
                   /\ rq' = [rq EXCEPT ![s] =
                               IF r.j < Len(r.newNamespaces)
                               THEN [r1 EXCEPT !.j = @ + 1]
                               ELSE [r1 EXCEPT !.pc = "secondPass"]]
       /\ UNCHANGED <<nss, sas, roles, rbs, crbs, tokSeq, nreq, pf, startup>>

\* unstructuredObj.SetNamespace(namespace); dri.Create(...) for namespaces[j]
SecondPassCreate(s) ==
    LET r == rq[s]
        ns == r.newNamespaces[r.j]
    IN /\ r.pc = "secondPassCreate"
       /\ \E fail \in BOOLEAN :
             /\ LET can == ns \in nss /\ ~Exists(objs, ns, r.obj.name)
                    ok == ~fail /\ can
                    r1 == Logged(r, "createObject", ns, r.obj.name, ok)
                IN /\ fail => can
                   /\ objs' = IF ok THEN objs \cup {[ns |-> ns, name |-> r.obj.name, by |-> s]}
                              ELSE objs
                   /\ rq' = [rq EXCEPT ![s] =
                               IF ~ok THEN Respond(RemoteError(r1), 500)
                               ELSE IF r.j < Len(r.newNamespaces)
                               THEN [r1 EXCEPT !.j = @ + 1]
                               ELSE [r1 EXCEPT !.pc = "secondPass"]]
       /\ UNCHANGED <<nss, sas, roles, rbs, crbs, tokSeq, nreq, pf, startup>>

(***************************************************************************)
(* DELETE /lab/{labName}: deleteLab.                                       *)
(***************************************************************************)
\* a variant that tests the prefix without the trailing hyphen
NamespaceOfLabNoHyphen(name, labName) == HasPrefix(name, NsPrefix \o labName)

\* namespace.Name == "ns-"+labName ||
\* strings.HasPrefix(namespace.Name, "ns-"+labName+"-")
NamespaceOfLab(name, labName) ==
    \/ name = NsPrefix \o labName
    \/ HasPrefix(name, NsPrefix \o labName \o HYPHEN)

\* strings.HasPrefix(clusterRoleBinding.Name, "read-namespaces-crb-"+labName+"-")
CrbOfLab(name, labName) == HasPrefix(name, CrbPrefix \o labName \o HYPHEN)

\* A DELETE /lab/{labName} arrives while fewer than budget requests have
\* arrived.
StartDeleteFrom(s, budget, labs) ==
    /\ boot.pc = "serve"
    /\ rq[s].pc \in {"idle", "done", "panic"}
    /\ nreq < budget
    /\ nreq' = nreq + 1
    /\ \E lab \in labs :
          rq' = [rq EXCEPT ![s] =
                   [Idle EXCEPT !.kind = "delete",
                                !.pre = [nss |-> nss, crbs |-> crbs],
                                !.labName = ReplaceAll(lab, HYPHEN, <<>>),
                                !.pc = "listNamespaces"]]
    /\ UNCHANGED <<cluster, pf, startup>>

StartDelete(s) == StartDeleteFrom(s, MaxRequests, DeleteInputs)

\* Namespaces().List; the items of the listing that the loop will delete
ListNamespaces(s) ==
    LET r == rq[s]
        matching == {n \in nss : NamespaceOfLab(n, r.labName)}
    IN /\ r.pc = "listNamespaces"
       /\ \E fail \in BOOLEAN :
             /\ rq' = [rq EXCEPT ![s] =
                         IF fail THEN Respond(RemoteError(r), 500)
                         ELSE [r EXCEPT !.todo = matching,
                                        !.pc = IF matching = {}
                                               THEN "listClusterRoleBindings"
                                               ELSE "deleteNamespace"]]
       /\ UNCHANGED <<cluster, nreq, pf, startup>>

\* a variant that goes on with the next item after a failed deletion
DeleteNamespaceContinue(s) ==
    LET r == rq[s]
    IN /\ r.pc = "deleteNamespace"
       /\ \E name \in r.todo, fail \in BOOLEAN :
             /\ fail => name \in nss
             /\ LET ok == ~fail /\ name \in nss
                    r1 == Logged([r EXCEPT !.todo = @ \ {name}],
                                 "deleteNamespace", <<>>, name, ok)
                    keep(set) == IF ok THEN {o \in set : o.ns # name} ELSE set
                IN /\ nss' = IF ok THEN nss \ {name} ELSE nss
                   /\ sas' = keep(sas)
                   /\ roles' = keep(roles)
                   /\ rbs' = keep(rbs)
                   /\ objs' = keep(objs)
                   /\ rq' = [rq EXCEPT ![s] =
                               IF r1.todo = {}
                               THEN [r1 EXCEPT !.pc = "listClusterRoleBindings"]
                               ELSE r1]
       /\ UNCHANGED <<crbs, tokSeq, nreq, pf, startup>>

\* Namespaces().Delete of the next matching item of the listing (the order of
\* the listing is the control plane's).  The control plane removes a deleted
\* namespace together with the namespaced objects in it.
DeleteNamespace(s) ==
    LET r == rq[s]
    IN /\ r.pc = "deleteNamespace"
       /\ \E name \in r.todo, fail \in BOOLEAN :
             /\ fail => name \in nss
             /\ LET ok == ~fail /\ name \in nss
                    r1 == Logged([r EXCEPT !.todo = @ \ {name}],
                                 "deleteNamespace", <<>>, name, ok)
                    keep(set) == IF ok THEN {o \in set : o.ns # name} ELSE set
                IN /\ nss' = IF ok THEN nss \ {name} ELSE nss
                   /\ sas' = keep(sas)
                   /\ roles' = keep(roles)
                   /\ rbs' = keep(rbs)
                   /\ objs' = keep(objs)
                   /\ rq' = [rq EXCEPT ![s] =
                               IF ~ok THEN Respond(RemoteError(r1), 500)
                               ELSE IF r1.todo = {}
                               THEN [r1 EXCEPT !.pc = "listClusterRoleBindings"]
                               ELSE r1]
       /\ UNCHANGED <<crbs, tokSeq, nreq, pf, startup>>

\* ClusterRoleBindings().List; the handler returns after the loop (status 200)
ListClusterRoleBindings(s) ==
    LET r == rq[s]
        matching == {b.name : b \in {c \in crbs : CrbOfLab(c.name, r.labName)}}
    IN /\ r.pc = "listClusterRoleBindings"
       /\ \E fail \in BOOLEAN :
             /\ rq' = [rq EXCEPT ![s] =
                         IF fail THEN Respond(RemoteError(r), 500)
                         ELSE IF matching = {} THEN Respond(r, 200)
                         ELSE [r EXCEPT !.todo = matching,
                                        !.pc = "deleteClusterRoleBinding"]]
       /\ UNCHANGED <<cluster, nreq, pf, startup>>

\* ClusterRoleBindings().Delete of the next matching item of the listing
DeleteClusterRoleBinding(s) ==
    LET r == rq[s]
    IN /\ r.pc = "deleteClusterRoleBinding"
       /\ \E name \in r.todo, fail \in BOOLEAN :
             /\ LET can == \E b \in crbs : b.name = name
                    ok == ~fail /\ can
                    r1 == Logged([r EXCEPT !.todo = @ \ {name}],
                                 "deleteClusterRoleBinding", <<>>, name, ok)
                IN /\ fail => can
                   /\ crbs' = IF ok THEN {b \in crbs : b.name # name} ELSE crbs
                   /\ rq' = [rq EXCEPT ![s] =
                               IF ~ok THEN Respond(RemoteError(r1), 500)
                               ELSE IF r1.todo = {} THEN Respond(r1, 200)
                               ELSE r1]
       /\ UNCHANGED <<nss, sas, roles, rbs, objs, tokSeq, nreq, pf, startup>>

(***************************************************************************)
(* main: createNamespaceClusterRoleIfNotExists, then the router.           *)
(* Error messages are sequences of words.                                  *)
(***************************************************************************)
\* strings.HasSuffix
HasSuffix(s, suffix) ==
    /\ Len(suffix) <= Len(s)
    /\ SubSeq(s, Len(s) - Len(suffix) + 1, Len(s)) = suffix

NotFound == <<"not", "found">>

\* the error of a Get for a cluster role that does not exist
ErrNotFound == <<"clusterroles", "read-namespaces-cr", "not", "found">>

\* errors that are no answer about the role: the caller may not read cluster
\* roles; the address of the API server does not resolve
ErrForbidden == <<"clusterroles", "read-namespaces-cr", "is", "forbidden">>
ErrHost == <<"lookup", "kubernetes", "server", "not", "found">>

\* what ClusterRoles().Get may return: nil stands for <<>>
GetErrors(present) ==
    (IF present THEN {<<>>} ELSE {ErrNotFound}) \cup {ErrForbidden, ErrHost}

\* a variant that takes every error for absence
readNamespaceClusterRoleExistsAnyError(err) ==
    IF err # <<>> THEN [exists |-> FALSE, err |-> <<>>]
    ELSE [exists |-> TRUE, err |-> <<>>]

\* readNamespaceClusterRoleExists, from the error of the Get
readNamespaceClusterRoleExists(err) ==
    IF err # <<>>
    THEN IF HasSuffix(err, NotFound) THEN [exists |-> FALSE, err |-> <<>>]
         ELSE [exists |-> FALSE, err |-> err]
    ELSE [exists |-> TRUE, err |-> <<>>]

\* createNamespaceClusterRoleIfNotExists up to the decision to create; main
\* panics on an error
CheckClusterRole ==
    /\ boot.pc = "check"
    /\ \E err \in GetErrors(ReadNamespacesCr \in crs) :
          LET res == readNamespaceClusterRoleExists(err)
              b1 == [boot EXCEPT !.exists = res.exists, !.err = err]
          IN boot' = IF res.err # <<>> THEN [b1 EXCEPT !.pc = "exit"]
                     ELSE IF ~res.exists THEN [b1 EXCEPT !.pc = "create"]
                     ELSE [b1 EXCEPT !.pc = "serve"]
    /\ UNCHANGED <<cluster, rq, nreq, pf, crs>>

\* createReadNamespacesClusterRole: ClusterRoles().Create
CreateClusterRole ==
    /\ boot.pc = "create"
    /\ \E fail \in BOOLEAN :
          LET can == ReadNamespacesCr \notin crs
              ok == ~fail /\ can
          IN /\ fail => can
             /\ crs' = IF ok THEN crs \cup {ReadNamespacesCr} ELSE crs
             /\ boot' = [boot EXCEPT
                           !.log = Append(@, [op |-> "createClusterRole", ok |-> ok]),
                           !.pc = IF ok THEN "serve" ELSE "exit"]
    /\ UNCHANGED <<cluster, rq, nreq, pf>>

(***************************************************************************)
(* Specification: requests are handled one after the other.                *)
(***************************************************************************)
\* the slot that handles the requests of Spec
Workers == {1}

Next ==
    \/ \E s \in Workers :
          \/ StartCreate(s)
          \/ CheckLab(s)
          \/ CreateLabNamespace(s)
          \/ CreateLabRole(s)
          \/ CheckNamespace(s)
          \/ CreateNamespace(s)
          \/ CreateServiceAccount(s)
          \/ PollServiceAccount(s)
          \/ GetSecret(s)
          \/ CreateRole(s)
          \/ CreateRoleBinding(s)
          \/ CreateLabRoleBinding(s)
          \/ CreateClusterRoleBinding(s)
          \/ GetManifest(s)
          \/ FirstPass(s)
          \/ FirstPassCreate(s)
          \/ SecondPass(s)
          \/ SecondPassCreate(s)
          \/ StartDelete(s)
          \/ ListNamespaces(s)
          \/ DeleteNamespace(s)
          \/ ListClusterRoleBindings(s)
          \/ DeleteClusterRoleBinding(s)
    \/ AttachSecret

Spec == Init /\ [][Next]_vars

(***************************************************************************)
(* Specification with fairness: the loop of createServiceAccount re-fetches *)
(* without pause, so an iteration that can leave the loop is taken; the    *)
(* token controller attaches a secret to every service account.            *)
(***************************************************************************)
SpecLive ==
    /\ Init
    /\ [][Next]_vars
    /\ WF_vars(AttachSecret)
    /\ \A s \in Workers : WF_vars(PollServiceAccount(s))

(***************************************************************************)
(* Specification: the process from its start.  The cluster may hold the    *)
(* cluster role already, from an earlier start.                            *)
(***************************************************************************)
InitMain ==
    /\ nss = ForeignNamespaces
    /\ sas = {}
    /\ roles = {}
    /\ rbs = {}
    /\ crbs = {[name |-> n, subject |-> <<>>, subjectNs |-> <<>>] : n \in ForeignCrbs}
    /\ objs = {}
    /\ tokSeq = 0
    /\ rq = [s \in Slots |-> Idle]
    /\ nreq = 0
    /\ pf = [phase |-> "off"]
    /\ crs \in {{}, {ReadNamespacesCr}}
    /\ boot = [Booting EXCEPT !.pre = crs]

NextMain ==
    \/ CheckClusterRole
    \/ CreateClusterRole
    \/ Next

SpecMain == InitMain /\ [][NextMain]_vars

(***************************************************************************)
(* Specifications: requests are handled concurrently, one goroutine per    *)
(* request (net/http).  The requests target one lab and one tenant.        *)
(***************************************************************************)
RaceLabs == { <<"d">> }
RaceRosters == { <<Student(<<"a">>, 1)>> }
RaceManifests == { <<Doc("shared", "noflag", TRUE), Doc("web", "false", TRUE)>> }

\* the steps of createLabEnvironment after the request has arrived
CreateSteps(s) ==
    \/ CheckLab(s)
    \/ CreateLabNamespace(s)
    \/ CreateLabRole(s)
    \/ CheckNamespace(s)
    \/ CreateNamespace(s)
    \/ CreateServiceAccount(s)
    \/ PollServiceAccount(s)
    \/ GetSecret(s)
    \/ CreateRole(s)
    \/ CreateRoleBinding(s)
    \/ CreateLabRoleBinding(s)
    \/ CreateClusterRoleBinding(s)
    \/ GetManifestFrom(s, {"ok"}, RaceManifests)
    \/ FirstPass(s)
    \/ FirstPassCreate(s)
    \/ SecondPass(s)
    \/ SecondPassCreate(s)

\* the steps of deleteLab after the request has arrived
DeleteSteps(s) ==
    \/ ListNamespaces(s)
    \/ DeleteNamespace(s)
    \/ ListClusterRoleBindings(s)
    \/ DeleteClusterRoleBinding(s)

\* create-lab requests alone
NextRace ==
    \/ \E s \in Slots :
          \/ StartCreateFrom(s, MaxRequests, {"ok"}, RaceLabs, RaceRosters, {TRUE})
          \/ CreateSteps(s)
    \/ AttachSecret

SpecRace == Init /\ [][NextRace]_vars

\* create-lab and delete-lab requests
NextConc ==
    \/ \E s \in Slots :
          \/ StartCreateFrom(s, MaxInterleaved, {"ok"}, RaceLabs, RaceRosters, {TRUE})
          \/ CreateSteps(s)
          \/ StartDeleteFrom(s, MaxInterleaved, RaceLabs)
          \/ DeleteSteps(s)
    \/ AttachSecret

SpecConc == Init /\ [][NextConc]_vars

(***************************************************************************)
(* Specification: create-lab requests, one after the other, whose rosters  *)
(* hold display names that spell "ns-<lab>-" once slugified.               *)
(***************************************************************************)
KeyLabs == { <<"d">> }
KeyRosters ==
    { <<Student(<<"x">>, 1), Student(<<"n", "s", " ", "d", " ", "x">>, 2)>>,
      <<Student(<<"a">>, 1), Student(<<"a", "n", "s", " ", "d", " ", "b">>, 1)>> }

NextKeys ==
    \/ \E s \in Workers :
          \/ StartCreateFrom(s, MaxRequests, {"ok"}, KeyLabs, KeyRosters, BOOLEAN)
          \/ CreateSteps(s)
    \/ AttachSecret

SpecKeys == Init /\ [][NextKeys]_vars

(***************************************************************************)
(* getNamespaceNames applied to rosters drawn from bounded sets.           *)
(***************************************************************************)
NameInputs == { <<"A", " ", "b">>, <<" ", "B", " ", " ", "a">> }
GroupInputs == NoGroup .. MaxGroup
StudentInputs == [name : NameInputs, group : GroupInputs]
PureRosters == UNION {[1..n -> StudentInputs] : n \in 0..MaxRoster}
PureLabs == { <<"d">>, <<"d", "e">> }

InitNames ==
    /\ nss = ForeignNamespaces
    /\ sas = {}
    /\ roles = {}
    /\ rbs = {}
    /\ crbs = {[name |-> n, subject |-> <<>>, subjectNs |-> <<>>] : n \in ForeignCrbs}
    /\ objs = {}
    /\ tokSeq = 0
    /\ rq = [s \in Slots |-> Idle]
    /\ nreq = 0
    /\ pf \in [phase : {"in"}, students : PureRosters, labName : PureLabs,
               isIndividual : BOOLEAN, out : {<<>>}]
    /\ crs = {ReadNamespacesCr}
    /\ boot = Serving

ApplyNames ==
    /\ pf.phase = "in"
    /\ pf' = [pf EXCEPT !.phase = "out",
                        !.out = getNamespaceNames(pf.students, pf.labName,
                                                  pf.isIndividual)]
    /\ UNCHANGED <<cluster, rq, nreq, startup>>

NextNames == ApplyNames

SpecNames == InitNames /\ [][NextNames]_vars

(***************************************************************************)
(* C5                                                                      *)
(***************************************************************************)
\* the display name with every space replaced by a hyphen and every letter
\* lower-cased, character by character
SlugOf(name) ==
    [i \in 1..Len(name) |-> IF name[i] = SPACE THEN "-" ELSE LowerChar(name[i])]

\* roster positions that hold a group number seen for the first time
FirstSeen(students) ==
    {i \in 1..Len(students) :
        /\ students[i].group # NoGroup
        /\ \A h \in 1..(i - 1) : students[h].group # students[i].group}

\* C5: in individual mode getNamespaceNames returns one name per roster
\* entry, in roster order, ns-<lab>-<slug of the display name>; in group mode
\* it returns ns-<lab>-group-<n> once per distinct group number other than
\* -1, in order of first occurrence, and entries with group -1 contribute
\* nothing.
C5_Names ==
    pf.phase = "out" =>
       IF pf.isIndividual
       THEN /\ Len(pf.out) = Len(pf.students)
            /\ \A i \in 1..Len(pf.students) :
                  pf.out[i] = <<"n", "s", "-">> \o pf.labName \o <<"-">>
                                 \o SlugOf(pf.students[i].name)
       ELSE /\ Len(pf.out) = Cardinality(FirstSeen(pf.students))
            /\ \A i \in FirstSeen(pf.students) :
                  LET rank == Cardinality({h \in FirstSeen(pf.students) : h <= i})
                  IN pf.out[rank] = <<"n", "s", "-">> \o pf.labName
                                       \o <<"-", "g", "r", "o", "u", "p", "-">>
                                       \o Itoa(pf.students[i].group)

\* the roster of groups 1, 1, 2, none has been mapped to two group namespaces
C5_Witness ==
    /\ pf.phase = "out"
    /\ ~pf.isIndividual
    /\ Len(pf.students) = 4
    /\ [i \in 1..4 |-> pf.students[i].group] = <<1, 1, 2, NoGroup>>
    /\ Len(pf.out) = 2

(***************************************************************************)
(* Vocabulary of the properties of Spec.                                   *)
(***************************************************************************)
\* the request handled by Spec
Req == rq[1]

\* positions of the log of r that hold a call of operation op
CallsOf(r, op) == {c \in DOMAIN r.log : r.log[c].op = op}

\* number of calls of operation op for the object name in namespace ns
CallCount(r, op, ns, name) ==
    Cardinality({c \in CallsOf(r, op) : r.log[c].ns = ns /\ r.log[c].name = name})

\* the request has returned its response
Returned(r) == r.pc = "done"

\* the lab namespace of the request, spelled out
LabNsOf(r) == <<"n", "s", "-">> \o r.labName

\* the tenant namespaces the request created: those of its roster that the
\* cluster did not hold when the request arrived
CreatedTenantNamespaces(r) ==
    {r.namespaces[n] : n \in 1..Len(r.namespaces)} \ r.pre.nss

\* every document of the manifest decodes, resolves and has a metadata map
\* whose single_instance flag is absent or a boolean
WellFormed(manifest) ==
    \A d \in 1..Len(manifest) :
       manifest[d].decodes /\ manifest[d].meta \in {"noflag", "true", "false"}

\* a document is a singleton unless its flag is false
IsSingleton(doc) == doc.meta # "false"

(***************************************************************************)
(* C2                                                                      *)
(***************************************************************************)
\* C2: a create-lab on a lab whose namespace did not exist, with a
\* well-formed manifest and every remote call succeeding, creates every
\* singleton document exactly once, in ns-<lab>, every non-singleton document
\* exactly once in each new tenant namespace, and no other manifest object;
\* the second pass decodes the same document sequence as the first.
C2_SingletonDistribution ==
    (/\ Req.kind = "create"
     /\ Returned(Req)
     /\ Req.status = 200
     /\ ~Req.remoteFailed
     /\ LabNsOf(Req) \notin Req.pre.nss
     /\ WellFormed(Req.manifest))
    => /\ \A d \in 1..Len(Req.manifest) :
             LET doc == Req.manifest[d]
             IN \A ns \in nss \cup Req.pre.nss :
                   CallCount(Req, "createObject", ns, doc.name) =
                      IF IsSingleton(doc)
                      THEN (IF ns = LabNsOf(Req) THEN 1 ELSE 0)
                      ELSE (IF ns \in CreatedTenantNamespaces(Req) THEN 1 ELSE 0)
       /\ \A c \in CallsOf(Req, "createObject") :
             /\ Req.log[c].ok
             /\ \E d \in 1..Len(Req.manifest) : Req.manifest[d].name = Req.log[c].name
             /\ Exists(objs, Req.log[c].ns, Req.log[c].name)
       /\ Req.seen1 = Req.manifest
       /\ Req.seen2 = Req.seen1

\* a new lab with two new tenant namespaces has received a manifest of one
\* singleton and one non-singleton document
C2_Witness ==
    /\ Req.kind = "create"
    /\ Returned(Req)
    /\ Req.status = 200
    /\ ~Req.remoteFailed
    /\ LabNsOf(Req) \notin Req.pre.nss
    /\ Cardinality(CreatedTenantNamespaces(Req)) = 2
    /\ Len(Req.manifest) = 2
    /\ WellFormed(Req.manifest)
    /\ Cardinality(CallsOf(Req, "createObject")) = 3

(***************************************************************************)
(* C3                                                                      *)
(***************************************************************************)
\* the labs whose objects the cluster may hold
LabNames == { <<"d">>, <<"d", "e">> }

\* the namespace name is ns-<lab> or starts with ns-<lab>-
BelongsToLab(name, lab) ==
    \/ name = <<"n", "s", "-">> \o lab
    \/ /\ Len(name) >= Len(lab) + 4
       /\ SubSeq(name, 1, Len(lab) + 4) = <<"n", "s", "-">> \o lab \o <<"-">>

\* the binding name starts with read-namespaces-crb-<lab>-
BindingOfLab(name, lab) ==
    /\ Len(name) >= Len(CrbPrefix) + Len(lab) + 1
    /\ SubSeq(name, 1, Len(CrbPrefix) + Len(lab) + 1) = CrbPrefix \o lab \o <<"-">>

\* C3: a delete-lab(L) whose remote calls all succeed deletes every namespace
\* named ns-L or starting with ns-L- and every cluster role binding starting
\* with read-namespaces-crb-L-, and nothing else; the namespaces and bindings
\* of any other lab are unchanged.
C3_CascadingDelete ==
    (/\ Req.kind = "delete"
     /\ Returned(Req)
     /\ ~Req.remoteFailed)
    => /\ Req.status = 200
       /\ nss = {n \in Req.pre.nss : ~BelongsToLab(n, Req.labName)}
       /\ crbs = {b \in Req.pre.crbs : ~BindingOfLab(b.name, Req.labName)}
       /\ \A c \in DOMAIN Req.log :
             \/ /\ Req.log[c].op = "deleteNamespace"
                /\ BelongsToLab(Req.log[c].name, Req.labName)
             \/ /\ Req.log[c].op = "deleteClusterRoleBinding"
                /\ BindingOfLab(Req.log[c].name, Req.labName)
       /\ \A other \in LabNames \ {Req.labName} :
             /\ \A n \in Req.pre.nss : BelongsToLab(n, other) => n \in nss
             /\ \A b \in Req.pre.crbs : BindingOfLab(b.name, other) => b \in crbs
             /\ \A o \in sas : BelongsToLab(o.ns, other) => o.ns \in nss
             /\ \A o \in roles : BelongsToLab(o.ns, other) => o.ns \in nss
             /\ \A o \in rbs : BelongsToLab(o.ns, other) => o.ns \in nss
             /\ \A o \in objs : BelongsToLab(o.ns, other) => o.ns \in nss

\* lab d, provisioned with a tenant, has been deleted while lab de stays
C3_Witness ==
    /\ Req.kind = "delete"
    /\ Returned(Req)
    /\ ~Req.remoteFailed
    /\ Req.labName = <<"d">>
    /\ Cardinality({n \in Req.pre.nss : BelongsToLab(n, <<"d">>)}) >= 2
    /\ \E b \in Req.pre.crbs : BindingOfLab(b.name, <<"d">>)
    /\ \A n \in nss : ~BelongsToLab(n, <<"d">>)
    /\ \E n \in nss : BelongsToLab(n, <<"d", "e">>)

(***************************************************************************)
(* C4                                                                      *)
(***************************************************************************)
\* positions of the roster's namespace list that the loop has ensured
Ensured(r) ==
    IF r.pc \in {"labExists", "createLabNamespace", "createLabRole"} THEN {}
    ELSE {n \in 1..Len(r.namespaces) : n < r.i}

\* C4: ensuring a namespace twice in sequence, with no deletion in between
\* and no remote failure, issues exactly one creation call; the second
\* invocation creates nothing and reports no error.
C4_IdempotentEnsure ==
    Req.kind = "create" =>
       /\ \A n \in Ensured(Req) :
             \A m \in 1..(n - 1) :
                Req.namespaces[m] = Req.namespaces[n] =>
                   /\ CallCount(Req, "createNamespace", <<>>, Req.namespaces[n])
                         = IF Req.namespaces[n] \in Req.pre.nss THEN 0 ELSE 1
                   /\ \A c \in CallsOf(Req, "createNamespace") :
                         Req.log[c].name = Req.namespaces[n] => Req.log[c].ok
       /\ (Req.pc = "createNamespace" /\ ~Req.remoteFailed) =>
             \A m \in 1..(Req.i - 1) : Req.namespaces[m] # Req.namespaces[Req.i]

\* a roster that names the same tenant twice has been ensured: one creation
C4_Witness ==
    /\ Req.kind = "create"
    /\ Req.pc = "createServiceAccount"
    /\ Len(Req.namespaces) = 2
    /\ Req.namespaces[1] = Req.namespaces[2]
    /\ Req.namespaces[1] \notin Req.pre.nss
    /\ CallCount(Req, "createNamespace", <<>>, Req.namespaces[1]) = 1

(***************************************************************************)
(* C9                                                                      *)
(***************************************************************************)
\* the identities the request created
IdentitiesMade(r) ==
    {c \in CallsOf(r, "createServiceAccount") : r.log[c].ok}

\* C9: the body of a successful create-lab response maps exactly the tenant
\* keys of the namespaces this request created (none for tenant namespaces
\* that existed before) to the token obtained for the identity this request
\* provisioned for that tenant.
C9_CredentialMapping ==
    (/\ Req.kind = "create"
     /\ Returned(Req)
     /\ Req.status = 200)
    => /\ DOMAIN Req.body = {Req.log[c].name : c \in IdentitiesMade(Req)}
       /\ {Req.log[c].ns : c \in IdentitiesMade(Req)} = CreatedTenantNamespaces(Req)
       /\ \A c \in IdentitiesMade(Req) :
             \E sa \in sas :
                /\ sa.ns = Req.log[c].ns
                /\ sa.name = Req.log[c].name
                /\ sa.secret # 0
                /\ Req.body[sa.name] = sa.secret
       /\ \A n \in 1..Len(Req.namespaces) :
             Req.namespaces[n] \in Req.pre.nss =>
                \A c \in DOMAIN Req.log : Req.log[c].ns # Req.namespaces[n]

\* a lab that had one tenant was extended by one more tenant: one credential
C9_Witness ==
    /\ Req.kind = "create"
    /\ Returned(Req)
    /\ Req.status = 200
    /\ Cardinality(DOMAIN Req.body) = 1
    /\ \E n \in 1..Len(Req.namespaces) : Req.namespaces[n] \in Req.pre.nss
    /\ Cardinality(CreatedTenantNamespaces(Req)) = 1

(***************************************************************************)
(* C10                                                                     *)
(***************************************************************************)
\* positions of the log that hold a failed call
FailedCalls(r) == {c \in DOMAIN r.log : ~r.log[c].ok}

\* C10: delete-lab stops at the first deletion error: the failed call is the
\* last call of the request, the matching objects later in the listing stay,
\* and a failed namespace deletion leaves every cluster role binding of the
\* lab undeleted.
C10_DeleteStopsAtFirstError ==
    Req.kind = "delete" =>
       \A c \in FailedCalls(Req) :
          /\ c = Len(Req.log)
          /\ Returned(Req)
          /\ Req.status = 500
          /\ Req.log[c].op = "deleteNamespace" =>
                /\ Req.todo \subseteq nss
                /\ CallsOf(Req, "deleteClusterRoleBinding") = {}
                /\ \A b \in Req.pre.crbs :
                      BindingOfLab(b.name, Req.labName) => b \in crbs
          /\ Req.log[c].op = "deleteClusterRoleBinding" =>
                \A name \in Req.todo : \E b \in crbs : b.name = name

\* the first of two namespace deletions of a provisioned lab has failed
C10_Witness ==
    /\ Req.kind = "delete"
    /\ Returned(Req)
    /\ \E c \in FailedCalls(Req) : Req.log[c].op = "deleteNamespace"
    /\ Req.todo # {}
    /\ \E b \in crbs : BindingOfLab(b.name, Req.labName)

(***************************************************************************)
(* C1                                                                      *)
(***************************************************************************)
\* the successful calls of operation op that the request issued for ns
MadeIn(r, op, ns) == {c \in CallsOf(r, op) : r.log[c].ns = ns /\ r.log[c].ok}

\* C1: a create-lab for a lab whose namespace exists, all remote calls
\* succeeding, creates exactly the tenant namespaces of the roster that were
\* absent, one identity and one binding set for each of them and none for the
\* tenant namespaces already present, every non-singleton document of the
\* manifest once in each new namespace and in no other, and no singleton
\* document.
C1_ReentrantExtension ==
    (/\ Req.kind = "create"
     /\ Returned(Req)
     /\ Req.status = 200
     /\ ~Req.remoteFailed
     /\ LabNsOf(Req) \in Req.pre.nss)
    => /\ nss = Req.pre.nss \cup CreatedTenantNamespaces(Req)
       /\ {Req.log[c].name : c \in CallsOf(Req, "createNamespace")}
             = CreatedTenantNamespaces(Req)
       /\ \A ns \in CreatedTenantNamespaces(Req) :
             /\ Cardinality(MadeIn(Req, "createServiceAccount", ns)) = 1
             /\ Cardinality(MadeIn(Req, "createRole", ns)) = 1
             /\ Cardinality(MadeIn(Req, "createRoleBinding", ns)) = 1
             /\ Cardinality({c \in MadeIn(Req, "createRoleBinding", LabNsOf(Req)) :
                               \E b \in rbs : /\ b.ns = LabNsOf(Req)
                                              /\ b.name = Req.log[c].name
                                              /\ b.subjectNs = ns}) = 1
             /\ Cardinality({b \in crbs \ Req.pre.crbs : b.subjectNs = ns}) = 1
       /\ \A ns \in Req.pre.nss \ {LabNsOf(Req)} :
             \A c \in DOMAIN Req.log : Req.log[c].ns # ns
       /\ \A b \in crbs \ Req.pre.crbs : b.subjectNs \in CreatedTenantNamespaces(Req)
       /\ \A c \in MadeIn(Req, "createRoleBinding", LabNsOf(Req)) :
             \A b \in rbs :
                (b.ns = LabNsOf(Req) /\ b.name = Req.log[c].name) =>
                   b.subjectNs \in CreatedTenantNamespaces(Req)
       /\ \A d \in 1..Len(Req.manifest) :
             LET doc == Req.manifest[d]
             IN \A ns \in nss :
                   CallCount(Req, "createObject", ns, doc.name) =
                      IF ~IsSingleton(doc) /\ ns \in CreatedTenantNamespaces(Req)
                      THEN 1 ELSE 0

(***************************************************************************)
(* C6                                                                      *)
(***************************************************************************)
\* the object a successful creation call made is in the cluster
StillExists(call) ==
    CASE call.op = "createNamespace" -> call.name \in nss
      [] call.op = "createClusterRoleBinding" -> \E b \in crbs : b.name = call.name
      [] call.op = "createServiceAccount" -> Exists(sas, call.ns, call.name)
      [] call.op = "createRole" -> Exists(roles, call.ns, call.name)
      [] call.op = "createRoleBinding" -> Exists(rbs, call.ns, call.name)
      [] call.op = "createObject" -> Exists(objs, call.ns, call.name)
      [] OTHER -> TRUE

\* C6: when a remote call made by create-lab fails, the request issues no
\* further mutating call, returns an error instead of a credential mapping,
\* and every object it created before the failure still exists.
C6_AbortWithoutRollback ==
    (Req.kind = "create" /\ Req.remoteFailed)
    => /\ Returned(Req)
       /\ Req.status = 500
       /\ Req.body = EmptyMap
       /\ \A c \in FailedCalls(Req) : c = Len(Req.log)
       /\ \A c \in DOMAIN Req.log : Req.log[c].ok => StillExists(Req.log[c])

(***************************************************************************)
(* C7                                                                      *)
(***************************************************************************)
\* C7: when the roster upload or the configuration upload is missing or of
\* an unsupported content type, create-lab reports a validation error and has
\* then created no namespace, identity, role or binding.
C7_ValidationBeforeMutation ==
    (/\ Req.kind = "create"
     /\ Returned(Req)
     /\ Req.status \in {400, 415})
    => \A c \in DOMAIN Req.log : ~Req.log[c].ok

(***************************************************************************)
(* C8                                                                      *)
(***************************************************************************)
\* C8: when a document fails to decode or to resolve during manifest
\* distribution, in the first or in the second pass, whether the lab
\* namespace existed or not, create-lab reports failure.
C8_DecodeErrorsFatal ==
    (/\ Req.kind = "create"
     /\ Returned(Req)
     /\ Req.helperErr # "nil")
    => Req.status = 500

(***************************************************************************)
(* C11                                                                     *)
(***************************************************************************)
\* the calls main issued to create the cluster role
RoleCreations == {c \in DOMAIN boot.log : boot.log[c].op = "createClusterRole"}

\* C11: the cluster role read-namespaces-cr is created at most once: main
\* issues a creation call only when the existence check reported the role
\* absent (an error ending in "not found"), any other error of the check ends
\* the start without a creation call, requests are served only after the
\* start, and no create-lab or delete-lab request creates or deletes the role.
C11_ClusterRoleOnce ==
    /\ Cardinality(RoleCreations) <= 1
    /\ RoleCreations # {} =>
          /\ ~boot.exists
          /\ HasSuffix(boot.err, NotFound)
    /\ (boot.err # <<>> /\ ~HasSuffix(boot.err, NotFound)) =>
          /\ boot.pc = "exit"
          /\ RoleCreations = {}
    /\ crs = boot.pre \cup
               (IF \E c \in RoleCreations : boot.log[c].ok
                THEN {ReadNamespacesCr} ELSE {})
    /\ \A s \in Slots :
          /\ rq[s].kind # "none" => boot.pc = "serve" /\ ReadNamespacesCr \in crs
          /\ \A c \in DOMAIN rq[s].log :
                rq[s].log[c].op \notin {"createClusterRole", "deleteClusterRole"}

\* main created the role, then a lab was created and deleted again
C11_Witness ==
    /\ boot.pc = "serve"
    /\ boot.pre = {}
    /\ \E c \in RoleCreations : boot.log[c].ok
    /\ crs = {ReadNamespacesCr}
    /\ rq[1].kind = "delete"
    /\ rq[1].pc = "done"
    /\ rq[1].status = 200
    /\ \E c \in DOMAIN rq[1].log : rq[1].log[c].ok

(***************************************************************************)
(* C12                                                                     *)
(***************************************************************************)
\* the request is inside createServiceAccount
InProvisioning(r) ==
    r.pc \in {"createServiceAccount", "pollServiceAccount", "getSecret"}

\* the service accounts the request is waiting for that hold a secret
Attached(r) ==
    {sa \in sas : /\ sa.ns = r.newNamespaces[r.k]
                  /\ sa.name = r.username
                  /\ sa.secret # 0}

\* C12: createServiceAccount leaves its loop only after a re-fetch showed a
\* secret, or with an error; the credential it returns is the token of that
\* secret; a failed create, re-fetch or secret fetch ends the request with an
\* error at once; when the control plane attaches a secret the loop is left,
\* and while none is attached and no call fails the request stays in it.
C12_IdentityPoll ==
    /\ [][(Req.pc = "pollServiceAccount" /\ Req'.pc # "pollServiceAccount")
             => \/ Attached(Req) # {} /\ Req'.pc = "getSecret"
                \/ Req'.remoteFailed /\ Req'.pc = "done" /\ Req'.status = 500]_vars
    /\ [][(InProvisioning(Req) /\ ~Req.remoteFailed /\ Req'.remoteFailed)
             => Req'.pc = "done" /\ Req'.status = 500 /\ Req'.body = EmptyMap]_vars
    /\ [][(Req.pc = "getSecret" /\ Req'.pc = "createRole")
             => \E sa \in Attached(Req) : Req'.token = sa.secret]_vars
    /\ [](Req.pc = "createRole" => Req.token # 0)
    /\ (Req.pc = "pollServiceAccount") ~> (Req.pc # "pollServiceAccount")

\* the loop was left after the token controller attached a secret
C12_Witness ==
    /\ Req.kind = "create"
    /\ Req.pc = "createRole"
    /\ Req.token # 0
    /\ ~Req.remoteFailed

(***************************************************************************)
(* C13                                                                     *)
(***************************************************************************)
\* C13: a document without single_instance flag, and a document without
\* metadata section, is a singleton, a document is a non-singleton only when
\* the flag is false; both passes classify alike, and no pass fails on a
\* document because its flag or its metadata is absent.
C13_SingletonDefault ==
    Req.kind = "create" =>
       \A pass \in {Req.seen1, Req.seen2} :
          \A d \in DOMAIN pass :
             /\ singleInstance(pass[d]) <=> pass[d].meta # "false"
             /\ (pass[d].meta \in {"absent", "noflag"} /\ d = Len(pass))
                   => Req.pc # "panic"

(***************************************************************************)
(* C14                                                                     *)
(***************************************************************************)
\* the calls of the request that create a manifest object
ObjectCreations(r) == CallsOf(r, "createObject")

\* C14: manifest objects are applied with a pure create: a create for a name
\* the namespace already holds fails, and a failed create ends handleManifest
\* with that error at once: no later document and no later namespace receives
\* a create call, and the objects created earlier stay.
C14_CreateConflictFatal ==
    Req.kind = "create" =>
       \A c \in ObjectCreations(Req) :
          /\ Req.log[c].ok =>
                /\ \A b \in ObjectCreations(Req) :
                      (b < c /\ Req.log[b].ok) =>
                         (Req.log[b].ns # Req.log[c].ns \/ Req.log[b].name # Req.log[c].name)
                /\ Exists(objs, Req.log[c].ns, Req.log[c].name)
          /\ ~Req.log[c].ok =>
                /\ c = Len(Req.log)
                /\ Returned(Req)
                /\ Req.status = 500
                /\ Req.body = EmptyMap

\* the second document of a name met the object of the first in the first of
\* two new tenant namespaces: the create failed and the second got no call
C14_Witness ==
    /\ Req.kind = "create"
    /\ Returned(Req)
    /\ Len(Req.newNamespaces) = 2
    /\ Req.log # <<>>
    /\ LET last == Req.log[Len(Req.log)]
       IN /\ last.op = "createObject"
          /\ ~last.ok
          /\ last.ns = Req.newNamespaces[1]
          /\ Exists(objs, last.ns, last.name)
          /\ CallCount(Req, "createObject", Req.newNamespaces[1], last.name) = 2
          /\ CallCount(Req, "createObject", Req.newNamespaces[2], last.name) = 1

(***************************************************************************)
(* C15                                                                     *)
(***************************************************************************)
\* C15: after a create-lab request has returned success (its manifest read
\* to the end), every singleton document of its manifest exists in the lab
\* namespace: a request that finds
\* ns-<lab> existing and skips the first pass finds them realized by a prior
\* request, also when an earlier create-lab aborted after creating ns-<lab>.
C15_SingletonsRealized ==
    (/\ Req.kind = "create"
     /\ Returned(Req)
     /\ Req.status = 200
     /\ Req.helperErr = "nil"
     /\ WellFormed(Req.manifest))
    => \A d \in 1..Len(Req.manifest) :
          IsSingleton(Req.manifest[d]) =>
             Exists(objs, LabNsOf(Req), Req.manifest[d].name)

(***************************************************************************)
(* C17                                                                     *)
(***************************************************************************)
\* the tenant namespace holds one identity, the full-access role and its
\* binding, and is the subject of a lab read binding and of a cluster-scoped
\* read binding
Provisioned(ns, labNs) ==
    /\ Cardinality({sa \in sas : sa.ns = ns}) = 1
    /\ \E role \in roles : role.ns = ns /\ role.name = StudentRole /\ role.verbs = {"*"}
    /\ \E b \in rbs : b.ns = ns /\ b.subjectNs = ns /\ b.role = StudentRole
    /\ \E b \in rbs : b.ns = labNs /\ b.subjectNs = ns /\ b.role = StudentRole
    /\ \E b \in crbs : b.subjectNs = ns

\* C17: after a create-lab request has returned success (its manifest read
\* to the end), every tenant namespace of its roster has exactly one identity, a full-access role with
\* its binding, a lab read binding and a cluster-scoped read binding, and the
\* lab namespace has its read-only role, also when an earlier create-lab for
\* the lab aborted part-way.
C17_RetryRepairs ==
    (/\ Req.kind = "create"
     /\ Returned(Req)
     /\ Req.status = 200
     /\ Req.helperErr = "nil")
    => /\ \A n \in 1..Len(Req.namespaces) :
             Provisioned(Req.namespaces[n], LabNsOf(Req))
       /\ \E role \in roles :
             /\ role.ns = LabNsOf(Req)
             /\ role.name = StudentRole
             /\ role.verbs = {"list", "get", "watch"}

(***************************************************************************)
(* C20                                                                     *)
(***************************************************************************)
\* the calls of r that precede position c
Before(r, c, op) == {b \in CallsOf(r, op) : b < c}

\* the call at position c of the log is a successful call of op for name in ns
CallAt(r, c, op, ns, name) ==
    /\ c <= Len(r.log)
    /\ r.log[c].op = op
    /\ r.log[c].ns = ns
    /\ r.log[c].name = name

\* C20: within one create-lab request the lab namespace and its read role are
\* established before any tenant namespace is created, all tenant namespaces
\* are ensured before any identity is created, for each new tenant the
\* identity is created and its credential obtained before its role, its role
\* binding, its lab read binding and its cluster-scoped binding, in that
\* order, and no manifest object is created before every new tenant has its
\* identity and its three bindings.
C20_StepOrdering ==
    Req.kind = "create" =>
       /\ \A c \in CallsOf(Req, "createNamespace") :
             IF Req.log[c].name = LabNsOf(Req)
             THEN c = 1
             ELSE /\ LabNsOf(Req) \in Req.pre.nss \/ CallAt(Req, 1, "createNamespace", <<>>, LabNsOf(Req))
                  /\ ~Req.labExists =>
                        CallAt(Req, 2, "createRole", LabNsOf(Req), StudentRole) /\ c > 2
                  /\ Before(Req, c, "createServiceAccount") = {}
       /\ \A c \in CallsOf(Req, "createServiceAccount") :
             LET ns == Req.log[c].ns
                 username == Req.log[c].name
             IN /\ Req.i > Len(Req.namespaces)
                /\ \A n \in 1..Len(Req.namespaces) : Req.namespaces[n] \in nss
                /\ Before(Req, c, "createObject") = {}
                /\ \A b \in DOMAIN Req.log :
                      (b < c /\ Req.log[b].op # "createNamespace") => Req.log[b].ns # ns
                /\ c + 1 <= Len(Req.log) =>
                      /\ Req.log[c].ok
                      /\ Req.token # 0 \/ Req.k > 1
                      /\ CallAt(Req, c + 1, "createRole", ns, StudentRole)
                /\ c + 2 <= Len(Req.log) =>
                      CallAt(Req, c + 2, "createRoleBinding", ns, StudentBinding)
                /\ c + 3 <= Len(Req.log) =>
                      CallAt(Req, c + 3, "createRoleBinding", LabNsOf(Req),
                             StudentBinding \o HYPHEN \o username)
                /\ c + 4 <= Len(Req.log) =>
                      CallAt(Req, c + 4, "createClusterRoleBinding", <<>>,
                             CrbName(Req.labName, username))
       /\ Req.pc \in {"createRole", "createRoleBinding", "createLabRoleBinding",
                      "createClusterRoleBinding"} => Req.token # 0
       /\ \A c \in CallsOf(Req, "createObject") :
             \A n \in 1..Len(Req.newNamespaces) :
                \E b \in Before(Req, c, "createClusterRoleBinding") :
                   /\ Req.log[b].ok
                   /\ b >= 5
                   /\ CallAt(Req, b - 4, "createServiceAccount", Req.newNamespaces[n],
                             Username(Req.newNamespaces[n], Req.labName))

\* a new lab with two new tenants has been provisioned and has received its
\* manifest objects
C20_Witness ==
    /\ Req.kind = "create"
    /\ Returned(Req)
    /\ Req.status = 200
    /\ ~Req.labExists
    /\ Len(Req.newNamespaces) = 2
    /\ Cardinality(CallsOf(Req, "createObject")) = 3
    /\ Cardinality(CallsOf(Req, "createClusterRoleBinding")) = 2

(***************************************************************************)
(* C16                                                                     *)
(***************************************************************************)
\* the manifest objects in the lab namespace of r that the request of
\* another slot than s created
SingletonsOfOthers(s, r) ==
    {o \in objs : o.ns = LabNamespace(r.labName) /\ o.by # s}

\* C16: under any interleaving of create-lab and delete-lab requests for a
\* lab, no request attempts to create a singleton object in a lab namespace
\* in which another request already ran the singleton pass.
C16_SingletonPassOnce ==
    \A s \in Slots :
       (rq[s].kind = "create" /\ rq[s].pc = "firstPassCreate")
          => SingletonsOfOthers(s, rq[s]) = {}

(***************************************************************************)
(* C18                                                                     *)
(***************************************************************************)
\* the slots whose request created the namespace
CreatorsOf(name) ==
    {s \in Slots : \E c \in CallsOf(rq[s], "createNamespace") :
                      rq[s].log[c].name = name /\ rq[s].log[c].ok}

\* the calls of r that provision the tenant namespace ns
ProvisioningCalls(r, ns) ==
    {c \in DOMAIN r.log :
        /\ r.log[c].op \in {"createServiceAccount", "createRole", "createRoleBinding",
                            "createClusterRoleBinding"}
        /\ \/ r.log[c].ns = ns
           \/ r.log[c].name = StudentBinding \o HYPHEN \o Username(ns, r.labName)
           \/ r.log[c].name = CrbName(r.labName, Username(ns, r.labName))}

\* C18: of the create-lab requests handled concurrently that call create for
\* a namespace, one succeeds; a request whose create fails aborts with an
\* error; so a namespace is created by at most one request, and only that
\* request provisions the identity, the role and the bindings of the tenant.
C18_CreationRace ==
    /\ \A s \in Slots : \A c \in CallsOf(rq[s], "createNamespace") :
          /\ Cardinality(CreatorsOf(rq[s].log[c].name)) <= 1
          /\ rq[s].log[c].ok => rq[s].log[c].name \in nss
          /\ ~rq[s].log[c].ok =>
                /\ c = Len(rq[s].log)
                /\ rq[s].pc = "done"
                /\ rq[s].status = 500
                /\ rq[s].body = EmptyMap
    /\ \A s \in Slots : \A n \in DOMAIN rq[s].namespaces :
          ProvisioningCalls(rq[s], rq[s].namespaces[n]) # {}
             => s \in CreatorsOf(rq[s].namespaces[n])

\* two requests observed the tenant namespace absent and called create: one
\* created and provisioned it, the other received the conflict and aborted
C18_Witness ==
    \E s, u \in Slots :
       /\ s # u
       /\ rq[s].kind = "create" /\ rq[u].kind = "create"
       /\ Len(rq[s].namespaces) = 1
       /\ rq[s].namespaces = rq[u].namespaces
       /\ CreatorsOf(rq[s].namespaces[1]) = {s}
       /\ ProvisioningCalls(rq[s], rq[s].namespaces[1]) # {}
       /\ rq[u].labExists
       /\ rq[u].pc = "done"
       /\ rq[u].status = 500
       /\ rq[u].log = <<[op |-> "createNamespace", ns |-> <<>>,
                         name |-> rq[s].namespaces[1], ok |-> FALSE]>>
       /\ ProvisioningCalls(rq[u], rq[s].namespaces[1]) = {}

(***************************************************************************)
(* C19                                                                     *)
(***************************************************************************)
\* the requests of slots s and u are both in the loop of
\* createServiceAccount, for the same identity name in the same namespace
BothPolling(s, u) ==
    /\ s # u
    /\ rq[s].pc = "pollServiceAccount"
    /\ rq[u].pc = "pollServiceAccount"
    /\ rq[s].labName = rq[u].labName
    /\ rq[s].newNamespaces[rq[s].k] = rq[u].newNamespaces[rq[u].k]
    /\ rq[s].username = rq[u].username

\* the service accounts the loop of r re-fetches
Polled(r) ==
    {sa \in sas : sa.ns = r.newNamespaces[r.k] /\ sa.name = r.username}

\* C19: two create-lab requests for the same lab and tenant can both be in
\* the loop of createServiceAccount at the same time; they then wait for the
\* secret of one and the same identity: each has created an identity of that
\* name, the namespace holds at most one, and neither leaves the loop for
\* the secret before that identity has one.  The two requests are not the
\* only ones: a delete-lab has removed the namespace of the first identity.
C19_SharedPoll ==
    /\ [](\A s, u \in Slots :
             BothPolling(s, u) =>
                /\ nreq > Cardinality({s, u})
                /\ Polled(rq[s]) = Polled(rq[u])
                /\ Cardinality(Polled(rq[s])) <= 1
                /\ rq[s].log # <<>>
                /\ rq[s].log[Len(rq[s].log)] =
                      [op |-> "createServiceAccount", ns |-> rq[s].newNamespaces[rq[s].k],
                       name |-> rq[s].username, ok |-> TRUE])
    /\ [][\A s, u \in Slots :
             (BothPolling(s, u) /\ rq'[s].pc = "getSecret")
                => \E sa \in Polled(rq[s]) : sa.secret # 0]_vars

\* both requests are in the loop and the identity they re-fetch has no secret
C19_Witness ==
    \E s, u \in Slots :
       /\ BothPolling(s, u)
       /\ Cardinality(Polled(rq[s])) = 1
       /\ \A sa \in Polled(rq[s]) : sa.secret = 0

(***************************************************************************)
(* C22                                                                     *)
(***************************************************************************)
\* the namespace name without its leading "ns-<lab>-"
WithoutLeadingPrefix(namespace, labName) ==
    SubSeq(namespace, Len(labName) + 5, Len(namespace))

\* the tenant namespaces the request has started to provision
TenantsOf(r) == {r.newNamespaces[k] : k \in 1..Len(r.newNamespaces)}

\* C22: the tenant key used as the name of the identity, as the subject of
\* the bindings and as the key of the credential map is the tenant namespace
\* name without its leading ns-<lab>- prefix, which is the slug of the
\* display name in individual mode.
C22_TenantKey ==
    Req.kind = "create" =>
       /\ \A c \in CallsOf(Req, "createServiceAccount") :
             Req.log[c].name = WithoutLeadingPrefix(Req.log[c].ns, Req.labName)
       /\ \A b \in rbs :
             b.subjectNs \in TenantsOf(Req)
                => b.subject = WithoutLeadingPrefix(b.subjectNs, Req.labName)
       /\ \A b \in crbs :
             b.subjectNs \in TenantsOf(Req)
                => b.subject = WithoutLeadingPrefix(b.subjectNs, Req.labName)
       /\ (Returned(Req) /\ Req.status = 200)
             => DOMAIN Req.body =
                   {WithoutLeadingPrefix(ns, Req.labName) : ns \in TenantsOf(Req)}
       /\ Req.isIndividual
             => \A n \in 1..Len(Req.namespaces) :
                   WithoutLeadingPrefix(Req.namespaces[n], Req.labName)
                      = SlugOf(Req.students[n].name)

(***************************************************************************)
(* C21                                                                     *)
(***************************************************************************)
\* the name of the binding in the lab namespace, spelled out
LabBindingName(username) ==
    <<"s", "t", "u", "d", "e", "n", "t", "-", "b", "i", "n", "d", "i", "n", "g", "-">>
       \o username

\* a creation call of the request failed while a binding of that name held
\* by another tenant namespace exists
ConflictWithOtherTenant(r) ==
    \/ \E c \in CallsOf(r, "createClusterRoleBinding") :
          /\ ~r.log[c].ok
          /\ \E b \in crbs :
                b.name = r.log[c].name /\ b.subjectNs # r.newNamespaces[r.k]
    \/ \E c \in CallsOf(r, "createRoleBinding") :
          /\ ~r.log[c].ok
          /\ r.log[c].ns = LabNsOf(r)
          /\ \E b \in rbs :
                /\ b.ns = LabNsOf(r)
                /\ b.name = r.log[c].name
                /\ b.subjectNs # r.newNamespaces[r.k]

\* C21: the names read-namespaces-crb-<lab>-<tenant-key> and
\* student-binding-<tenant-key> generated for two distinct tenant namespaces
\* of the request are distinct, the cluster-scoped name also differs from
\* every binding held by a namespace of another lab, and no creation of a
\* binding fails with a conflict caused by another tenant.
C21_BindingNames ==
    Req.kind = "create" =>
       /\ \A n, m \in 1..Len(Req.namespaces) :
             Req.namespaces[n] # Req.namespaces[m]
                => /\ CrbName(Req.labName, Username(Req.namespaces[n], Req.labName))
                        # CrbName(Req.labName, Username(Req.namespaces[m], Req.labName))
                   /\ LabBindingName(Username(Req.namespaces[n], Req.labName))
                        # LabBindingName(Username(Req.namespaces[m], Req.labName))
       /\ \A n \in 1..Len(Req.namespaces) :
             \A b \in crbs :
                b.subjectNs # Req.namespaces[n]
                   => b.name # CrbName(Req.labName,
                                       Username(Req.namespaces[n], Req.labName))
       /\ ~ConflictWithOtherTenant(Req)

(***************************************************************************)
(* C23                                                                     *)
(***************************************************************************)
\* the credentials the response of the request carries
Delivered(r) == {r.body[key] : key \in DOMAIN r.body}

\* the second pass has handled every document of the manifest and every
\* non-singleton document exists in every tenant namespace the request
\* provisioned
DistributionComplete(r) ==
    /\ Len(r.seen2) = Len(r.manifest)
    /\ \A d \in 1..Len(r.manifest) :
          ~IsSingleton(r.manifest[d])
             => \A ns \in TenantsOf(r) : Exists(objs, ns, r.manifest[d].name)

\* C23: a credential is carried only by the response of the request that
\* created the identity it belongs to, and only when that request has
\* completed every later step, manifest distribution included; a request
\* that aborts carries no credential, and no later response carries the
\* credential of an identity an earlier request created.
C23_CredentialDelivery ==
    Req.kind = "create" =>
       /\ \A key \in DOMAIN Req.body :
             \E c \in IdentitiesMade(Req) :
                /\ Req.log[c].name = key
                /\ Req.log[c].ns \notin Req.pre.nss
                /\ \E sa \in sas : /\ sa.ns = Req.log[c].ns
                                   /\ sa.name = key
                                   /\ sa.secret = Req.body[key]
       /\ \A sa \in sas :
             sa.secret \in Delivered(Req) => sa.ns \notin Req.pre.nss
       /\ Delivered(Req) # {}
             => /\ Returned(Req)
                /\ Req.status = 200
                /\ DistributionComplete(Req)
====
